---- MODULE Spec2Model ----
(***************************************************************************)
(* useWindowOrientation (src/src/index.ts): a React hook that keeps the    *)
(* orientation of the window ("portrait" when innerWidth <= innerHeight,   *)
(* "landscape" otherwise) in a state value, recomputed by a resize         *)
(* listener that is debounced with lodash.debounce(func, 400,              *)
(* {leading: true, trailing: true}).                                       *)
(*                                                                         *)
(* Time is kept as ages and remaining delays (the age of the last call of  *)
(* the debounced function, the delay left on its timer), so that the state *)
(* space is finite.  Timers fire when they are due: time does not pass a   *)
(* due timer.                                                              *)
(***************************************************************************)
EXTENDS Integers, Sequences, FiniteSets, TLC

\* ------------------------------------------------------------------ bounds
\* Clock ticks per debounce window: a tick lasts Wait \div TicksPerWait.
TicksPerWait == 4
\* Cap of the counters that observe a burst of resize notifications.
MaxBurst == 3

\* --------------------------------------------------------------- constants
\* debounce(..., 400, ...): the debounce window.
Wait == 400

Quantum == Wait \div TicksPerWait

\* A delay or an age that is not set (timerId, lastCallTime === undefined).
Undefined == 0 - 1

\* Hook instances (component instances calling the hook); a specification
\* mounts those of its Next.
Hooks == {"h1", "h2"}

\* Window sizes offered to innerWidth and innerHeight.
Sizes == {500, 1000}

\* ------------------------------------------------------------- JS values
\* A JavaScript value: its kind, and the payload of the kinds that have one.
JsValue(kind, str, num) == [kind |-> kind, str |-> str, num |-> num]

JsUndefined == JsValue("undefined", "", 0)
JsNull == JsValue("null", "", 0)
JsString(s) == JsValue("string", s, 0)
JsNumber(n) == JsValue("number", "", n)
JsBoolean(b) == JsValue("boolean", "", IF b THEN 1 ELSE 0)
JsSymbol(description) == JsValue("symbol", description, 0)
JsFunction == JsValue("function", "", 0)
JsObject == JsValue("object", "", 0)
JsArray == JsValue("array", "", 0)

\* The typeof operator.
Typeof(v) ==
    CASE v.kind = "null" -> "object"
      [] v.kind = "array" -> "object"
      [] OTHER -> v.kind

Digit(d) ==
    CASE d = 0 -> "0" [] d = 1 -> "1" [] d = 2 -> "2" [] d = 3 -> "3"
      [] d = 4 -> "4" [] d = 5 -> "5" [] d = 6 -> "6" [] d = 7 -> "7"
      [] d = 8 -> "8" [] OTHER -> "9"

RECURSIVE NumberToString(_)
NumberToString(n) ==
    IF n < 10 THEN Digit(n) ELSE NumberToString(n \div 10) \o Digit(n % 10)

\* Whether converting v to a string in a template literal throws.
ToStringThrows(v) == v.kind = "symbol"

\* The string a template literal makes of v (v not a symbol).
TemplateString(v) ==
    CASE v.kind = "string" -> v.str
      [] v.kind = "number" -> NumberToString(v.num)
      [] v.kind = "boolean" -> (IF v.num = 1 THEN "true" ELSE "false")
      [] v.kind = "null" -> "null"
      [] v.kind = "undefined" -> "undefined"
      [] v.kind = "array" -> ""
      [] v.kind = "function" -> "function () {}"
      [] OTHER -> "[object Object]"

\* An options argument: the value passed, and its defaultOrientation property
\* (JsUndefined when the value has none).
Options(v, defaultOrientation) == [v |-> v, defaultOrientation |-> defaultOrientation]

\* The hook has not been called.
NotCalled == Options(JsValue("uncalled", "", 0), JsUndefined)

\* The options arguments the hook is called with.
InvalidDefaults ==
    {JsString("sideways"), JsNumber(42), JsNull, JsBoolean(TRUE), JsSymbol("x")}

ValidDefaults == {JsString("portrait"), JsString("landscape")}

OptionsValues ==
    {Options(v, JsUndefined) :
        v \in {JsUndefined, JsString("foo"), JsNumber(42), JsBoolean(TRUE),
               JsFunction, JsNull, JsObject, JsArray}}
    \cup {Options(JsObject, d) : d \in ValidDefaults \cup InvalidDefaults}

\* ---------------------------------------------------------------- errors
Error(name, message) == [name |-> name, message |-> message]
NoError == Error("", "")

OptionsTypeMessage == "The options argument must be formatted as an object."
DefaultOrientationMessage ==
    " is not a valid defaultOrientation. Use \"portrait\" or \"landscape\"."
\* What the engine says when null is destructured (V8's wording).
DestructureNullMessage ==
    "Cannot destructure property 'defaultOrientation' of 'options' as it is null."
\* What the engine says when a symbol is put in a template literal.
SymbolToStringMessage == "Cannot convert a Symbol value to a string"

\* ----------------------------------------------------- the hook's functions
\* Lines 25-37: the checks of the options argument.  The outcome is the error
\* thrown (NoError when none) and the defaultOrientation the hook goes on with.
Validate(options) ==
    IF Typeof(options.v) /= "object"
    THEN [thrown |-> Error("TypeError", OptionsTypeMessage),
          defaultOrientation |-> JsUndefined]
    ELSE IF options.v.kind = "null"
    THEN [thrown |-> Error("TypeError", DestructureNullMessage),
          defaultOrientation |-> JsUndefined]
    ELSE LET defaultOrientation ==
                 IF options.defaultOrientation = JsUndefined
                 THEN JsString("portrait")
                 ELSE options.defaultOrientation
             isString == Typeof(defaultOrientation) = "string"
             quote == IF isString THEN "\"" ELSE ""
         IN  IF /\ defaultOrientation /= JsString("portrait")
                /\ defaultOrientation /= JsString("landscape")
             THEN IF ToStringThrows(defaultOrientation)
                  THEN [thrown |-> Error("TypeError", SymbolToStringMessage),
                        defaultOrientation |-> defaultOrientation]
                  ELSE [thrown |->
                            Error("TypeError",
                                  quote \o TemplateString(defaultOrientation)
                                        \o quote \o DefaultOrientationMessage),
                        defaultOrientation |-> defaultOrientation]
             ELSE [thrown |-> NoError, defaultOrientation |-> defaultOrientation]

\* The flags copied from one another.
OrientationResultsSameFlag(orientation) ==
    [orientation |-> orientation,
     portrait |-> orientation = "portrait",
     landscape |-> orientation = "portrait"]

\* Lines 62-66: the object the hook returns.
OrientationResults(orientation) ==
    [orientation |-> orientation,
     portrait |-> orientation = "portrait",
     landscape |-> orientation = "landscape"]

\* No object returned (the hook was not called, or it threw).
NoResults == [orientation |-> "", portrait |-> FALSE, landscape |-> FALSE]

\* The state value of a hook that has none.
NoOrientation == ""

\* Lines 44-48: the orientation the debounced function sets.
Classify(innerWidth, innerHeight) ==
    IF innerWidth <= innerHeight THEN "portrait" ELSE "landscape"

\* ------------------------------------------------------- lodash.debounce
\* The state of a debounced function: the delay left on its timer, whether
\* lastArgs is set, and the age of lastCallTime.
Debounced(timerId, lastArgs, lastCallAge) ==
    [timerId |-> timerId, lastArgs |-> lastArgs, lastCallAge |-> lastCallAge]

\* debounce(func, 400, {leading: true, trailing: true}) as created.
NewDebounced == Debounced(Undefined, FALSE, Undefined)

\* shouldInvoke(time), without maxWait.
ShouldInvoke(d) == d.lastCallAge = Undefined \/ d.lastCallAge >= Wait

\* A function that is not debounced: every call invokes func.
DebouncedCallEveryCall(d) ==
    [d |-> Debounced(Wait, FALSE, 0), invoked |-> "leading"]

\* A call of a function debounced with {leading: false}.
DebouncedCallNoLeading(d) ==
    IF d.timerId = Undefined
    THEN [d |-> Debounced(Wait, TRUE, 0), invoked |-> "none"]
    ELSE [d |-> Debounced(d.timerId, TRUE, 0), invoked |-> "none"]

\* A call of the debounced function: its state after the call, and the edge
\* on which func was invoked ("none" when it was not).
DebouncedCall(d) ==
    IF ShouldInvoke(d) /\ d.timerId = Undefined
    THEN \* leadingEdge: start the timer, then invokeFunc clears lastArgs
         [d |-> Debounced(Wait, FALSE, 0), invoked |-> "leading"]
    ELSE IF d.timerId = Undefined
    THEN [d |-> Debounced(Wait, TRUE, 0), invoked |-> "none"]
    ELSE [d |-> Debounced(d.timerId, TRUE, 0), invoked |-> "none"]

\* timerExpired with {trailing: false}.
TimerExpiredNoTrailing(d) ==
    IF ShouldInvoke(d)
    THEN [d |-> Debounced(Undefined, FALSE, d.lastCallAge), invoked |-> "none"]
    ELSE [d |-> Debounced(Wait - d.lastCallAge, d.lastArgs, d.lastCallAge),
          invoked |-> "none"]

\* timerExpired that does not start the timer again.
TimerExpiredNoRestart(d) ==
    IF ShouldInvoke(d)
    THEN [d |-> Debounced(Undefined, FALSE, d.lastCallAge),
          invoked |-> IF d.lastArgs THEN "trailing" ELSE "none"]
    ELSE [d |-> Debounced(Undefined, d.lastArgs, d.lastCallAge),
          invoked |-> "none"]

\* timerExpired whose trailing edge invokes func whether or not a call came.
TimerExpiredAlwaysTrailing(d) ==
    IF ShouldInvoke(d)
    THEN [d |-> Debounced(Undefined, FALSE, d.lastCallAge), invoked |-> "trailing"]
    ELSE [d |-> Debounced(Wait - d.lastCallAge, d.lastArgs, d.lastCallAge),
          invoked |-> "none"]

\* timerExpired: the trailing edge when the last call is Wait old, else the
\* timer is started again for the rest of the wait.
TimerExpired(d) ==
    IF ShouldInvoke(d)
    THEN [d |-> Debounced(Undefined, FALSE, d.lastCallAge),
          invoked |-> IF d.lastArgs THEN "trailing" ELSE "none"]
    ELSE [d |-> Debounced(Wait - d.lastCallAge, d.lastArgs, d.lastCallAge),
          invoked |-> "none"]

\* cancel().
Cancel(d) == Debounced(Undefined, FALSE, Undefined)

\* The state after delta time units: the timer's delay shrinks, the age of the
\* last call grows (ages of Wait and more are alike to shouldInvoke).
Elapse(d, delta) ==
    Debounced(IF d.timerId = Undefined THEN Undefined ELSE d.timerId - delta,
              d.lastArgs,
              IF d.lastCallAge = Undefined THEN Undefined
              ELSE IF d.lastCallAge + delta >= Wait THEN Wait
              ELSE d.lastCallAge + delta)

\* ------------------------------------------------------------------ state
VARIABLES
    hasWindow,      \* whether the environment has a window object
    innerWidth,     \* window.innerWidth
    innerHeight,    \* window.innerHeight
    listeners,      \* the hooks whose handleResize listens to "resize"
    phase,          \* per hook: "unmounted", "rendered", "active", "crashed"
    options,        \* per hook: the options of its last call
    thrown,         \* per hook: the error its last call threw
    orientation,    \* per hook: the state value of useState
    result,         \* per hook: the object its last call returned
    handleResize,   \* per hook: the state of its debounced function
    fired,          \* per hook: the edge on which the last step invoked func
    sinceResize,    \* the age of the last resize notification
    burstCalls,     \* per hook: notifications received in the current burst
    burstInvokes,   \* per hook: invocations of func the current burst caused
    mismatchAge     \* per hook: for how long orientation has disagreed with
                    \* the window

vars ==
    <<hasWindow, innerWidth, innerHeight, listeners, phase, options, thrown,
      orientation, result, handleResize, fired, sinceResize, burstCalls,
      burstInvokes, mismatchAge>>

\* The orientation of the window as it is.
WindowOrientation == Classify(innerWidth, innerHeight)

\* Ages of more than Wait are alike.
Older(age, delta) ==
    IF age = Undefined THEN Undefined
    ELSE IF age + delta > Wait THEN Wait + 1
    ELSE age + delta

\* Ages of mismatch are followed up to twice the wait.
MismatchCap == 2 * Wait

NoneFired == [j \in Hooks |-> "none"]

Init ==
    /\ hasWindow \in BOOLEAN
    /\ innerWidth \in (IF hasWindow THEN Sizes ELSE {0})
    /\ innerHeight \in (IF hasWindow THEN Sizes ELSE {0})
    /\ listeners = {}
    /\ phase = [i \in Hooks |-> "unmounted"]
    /\ options = [i \in Hooks |-> NotCalled]
    /\ thrown = [i \in Hooks |-> NoError]
    /\ orientation = [i \in Hooks |-> NoOrientation]
    /\ result = [i \in Hooks |-> NoResults]
    /\ handleResize = [i \in Hooks |-> NewDebounced]
    /\ fired = NoneFired
    /\ sinceResize = Undefined
    /\ burstCalls = [i \in Hooks |-> 0]
    /\ burstInvokes = [i \in Hooks |-> 0]
    /\ mismatchAge = [i \in Hooks |-> 0]

\* The mismatch ages after a step that took delta time units: a listening hook
\* whose orientation disagrees with the window has disagreed for delta longer.
Mismatch(delta) ==
    mismatchAge' =
        [j \in Hooks |->
            IF j \in listeners' /\ orientation'[j] /= WindowOrientation'
            THEN IF mismatchAge[j] + delta > MismatchCap
                 THEN MismatchCap
                 ELSE mismatchAge[j] + delta
            ELSE 0]

\* ---------------------------------------------------------------- actions
\* Line 23: the options parameter, {} when the argument is undefined.
OptionsParameter(opts) ==
    IF opts.v = JsUndefined THEN Options(JsObject, JsUndefined) ELSE opts

\* The state value created before the options are checked.
FirstRenderStateFirst(opts) ==
    LET checked == Validate(OptionsParameter(opts))
    IN  IF checked.thrown /= NoError
        THEN [thrown |-> checked.thrown,
              orientation |-> checked.defaultOrientation.str,
              result |-> NoResults, effect |-> FALSE]
        ELSE [thrown |-> NoError,
              orientation |-> checked.defaultOrientation.str,
              result |-> OrientationResults(checked.defaultOrientation.str),
              effect |-> TRUE]

\* Lines 22-39 and 62-66 on the first render of a component: what the call
\* throws, the state value useState creates, the object returned, and whether
\* the effect of lines 41-60 is registered.
FirstRender(opts) ==
    LET checked == Validate(OptionsParameter(opts))
    IN  IF checked.thrown /= NoError
        THEN [thrown |-> checked.thrown, orientation |-> NoOrientation,
              result |-> NoResults, effect |-> FALSE]
        ELSE [thrown |-> NoError,
              orientation |-> checked.defaultOrientation.str,
              result |-> OrientationResults(checked.defaultOrientation.str),
              effect |-> TRUE]

\* A component that is not mounted renders and calls the hook with opts.
Activate(i, opts) ==
    /\ phase[i] = "unmounted"
    /\ LET out == FirstRender(opts)
       IN  /\ options' = [options EXCEPT ![i] = opts]
           /\ thrown' = [thrown EXCEPT ![i] = out.thrown]
           /\ orientation' =
                  [orientation EXCEPT
                      ![i] = IF out.orientation = NoOrientation
                             THEN @ ELSE out.orientation]
           /\ result' = [result EXCEPT ![i] = out.result]
           /\ phase' = [phase EXCEPT ![i] = IF out.effect THEN "rendered" ELSE @]
    /\ fired' = NoneFired
    /\ UNCHANGED <<hasWindow, innerWidth, innerHeight, listeners, handleResize,
                   sinceResize, burstCalls, burstInvokes>>
    /\ Mismatch(0)

\* A render that runs the effect again, as without the [] of line 60: the
\* cleanup, then a new handleResize, called once and added as a listener.
RerenderRunsEffect(i) ==
    /\ phase[i] \in {"rendered", "active"}
    /\ result' = [result EXCEPT ![i] = OrientationResults(orientation[i])]
    /\ IF phase[i] = "active"
       THEN /\ handleResize' =
                   [handleResize EXCEPT ![i] = Debounced(Wait, FALSE, 0)]
            /\ orientation' = [orientation EXCEPT ![i] = WindowOrientation]
            /\ fired' = [NoneFired EXCEPT ![i] = "leading"]
       ELSE /\ fired' = NoneFired
            /\ UNCHANGED <<handleResize, orientation>>
    /\ UNCHANGED <<hasWindow, innerWidth, innerHeight, listeners, phase, options,
                   thrown, sinceResize, burstCalls, burstInvokes>>
    /\ Mismatch(0)

\* A mounted component renders again with the options it was given: useState
\* returns the state value as it is, the effect (dependencies []) is not run.
Rerender(i) ==
    /\ phase[i] \in {"rendered", "active"}
    /\ result' = [result EXCEPT ![i] = OrientationResults(orientation[i])]
    /\ fired' = NoneFired
    /\ UNCHANGED <<hasWindow, innerWidth, innerHeight, listeners, phase, options,
                   thrown, orientation, handleResize, sinceResize, burstCalls,
                   burstInvokes>>
    /\ Mismatch(0)

\* Lines 41-55, the effect after the first render: handleResize is created,
\* called once, and added as a listener.  Without a window the call throws a
\* ReferenceError at line 44, after debounce has started its timer; line 54
\* is not reached and no cleanup is returned.
Effect(i) ==
    /\ phase[i] = "rendered"
    /\ LET call == DebouncedCall(NewDebounced)
       IN  /\ handleResize' = [handleResize EXCEPT ![i] = call.d]
           /\ IF call.invoked = "none"
              THEN /\ phase' = [phase EXCEPT ![i] = "active"]
                   /\ listeners' = listeners \cup {i}
                   /\ UNCHANGED orientation
              ELSE IF hasWindow
              THEN /\ orientation' = [orientation EXCEPT ![i] = WindowOrientation]
                   /\ phase' = [phase EXCEPT ![i] = "active"]
                   /\ listeners' = listeners \cup {i}
              ELSE /\ phase' = [phase EXCEPT ![i] = "crashed"]
                   /\ UNCHANGED <<orientation, listeners>>
           /\ fired' = [NoneFired EXCEPT ![i] = call.invoked]
    /\ burstCalls' = [burstCalls EXCEPT ![i] = 0]
    /\ burstInvokes' = [burstInvokes EXCEPT ![i] = 0]
    /\ UNCHANGED <<hasWindow, innerWidth, innerHeight, options, thrown, result,
                   sinceResize>>
    /\ Mismatch(0)

\* A counter of the burst, one more, up to its cap.
Counted(n) == IF n >= MaxBurst THEN MaxBurst ELSE n + 1

\* A resize listener whose func reads the size the window had before.
ResizeReadsOldSize(w, h) ==
    /\ hasWindow
    /\ innerWidth' = w
    /\ innerHeight' = h
    /\ LET call == [j \in Hooks |-> DebouncedCall(handleResize[j])]
           invoking == {j \in listeners : call[j].invoked /= "none"}
           newBurst == [j \in Hooks |->
                           \/ burstCalls[j] = 0
                           \/ sinceResize = Undefined
                           \/ sinceResize >= Wait]
       IN  /\ handleResize' =
                  [j \in Hooks |->
                      IF j \in listeners THEN call[j].d ELSE handleResize[j]]
           /\ fired' =
                  [j \in Hooks |->
                      IF j \in listeners THEN call[j].invoked ELSE "none"]
           /\ orientation' =
                  [j \in Hooks |->
                      IF j \in invoking THEN Classify(innerWidth, innerHeight) ELSE orientation[j]]
           /\ burstCalls' =
                  [j \in Hooks |->
                      IF j \notin listeners THEN burstCalls[j]
                      ELSE IF newBurst[j] THEN 1
                      ELSE Counted(burstCalls[j])]
           /\ burstInvokes' =
                  [j \in Hooks |->
                      IF j \notin listeners THEN burstInvokes[j]
                      ELSE LET before == IF newBurst[j] THEN 0 ELSE burstInvokes[j]
                           IN  IF j \in invoking THEN Counted(before) ELSE before]
    /\ sinceResize' = 0
    /\ UNCHANGED <<hasWindow, listeners, phase, options, thrown, result>>
    /\ Mismatch(0)

\* The window is resized to w by h and dispatches "resize": every listener,
\* a debounced function, is called (line 54), and those that invoke func set
\* the orientation from the new size (lines 44-48).  A notification that comes
\* Wait or more after the previous one starts a new burst.
Resize(w, h) ==
    /\ hasWindow
    /\ innerWidth' = w
    /\ innerHeight' = h
    /\ LET call == [j \in Hooks |-> DebouncedCall(handleResize[j])]
           invoking == {j \in listeners : call[j].invoked /= "none"}
           newBurst == [j \in Hooks |->
                           \/ burstCalls[j] = 0
                           \/ sinceResize = Undefined
                           \/ sinceResize >= Wait]
       IN  /\ handleResize' =
                  [j \in Hooks |->
                      IF j \in listeners THEN call[j].d ELSE handleResize[j]]
           /\ fired' =
                  [j \in Hooks |->
                      IF j \in listeners THEN call[j].invoked ELSE "none"]
           /\ orientation' =
                  [j \in Hooks |->
                      IF j \in invoking THEN Classify(w, h) ELSE orientation[j]]
           /\ burstCalls' =
                  [j \in Hooks |->
                      IF j \notin listeners THEN burstCalls[j]
                      ELSE IF newBurst[j] THEN 1
                      ELSE Counted(burstCalls[j])]
           /\ burstInvokes' =
                  [j \in Hooks |->
                      IF j \notin listeners THEN burstInvokes[j]
                      ELSE LET before == IF newBurst[j] THEN 0 ELSE burstInvokes[j]
                           IN  IF j \in invoking THEN Counted(before) ELSE before]
    /\ sinceResize' = 0
    /\ UNCHANGED <<hasWindow, listeners, phase, options, thrown, result>>
    /\ Mismatch(0)

\* The delays of the timers that are running.
RunningTimers ==
    {handleResize[j].timerId : j \in {k \in Hooks : handleResize[k].timerId /= Undefined}}

\* Time passes: a tick, or less when a timer is due sooner.  No time passes
\* while a timer is due.
Tick ==
    /\ 0 \notin RunningTimers
    /\ LET delta == CHOOSE t \in RunningTimers \cup {Quantum} :
                        \A u \in RunningTimers \cup {Quantum} : t <= u
       IN  /\ handleResize' = [j \in Hooks |-> Elapse(handleResize[j], delta)]
           /\ sinceResize' = Older(sinceResize, delta)
           /\ fired' = NoneFired
           /\ UNCHANGED <<hasWindow, innerWidth, innerHeight, listeners, phase,
                          options, thrown, orientation, result, burstCalls,
                          burstInvokes>>
           /\ Mismatch(delta)

\* The timer of hook i's debounced function is due and runs timerExpired; on
\* the trailing edge with lastArgs set, func sets the orientation from the
\* window as it is now (lines 44-48).
TimerFires(i) ==
    /\ handleResize[i].timerId = 0
    /\ LET out == TimerExpired(handleResize[i])
       IN  /\ handleResize' = [handleResize EXCEPT ![i] = out.d]
           /\ fired' = [NoneFired EXCEPT ![i] = out.invoked]
           /\ IF out.invoked /= "none" /\ hasWindow
              THEN /\ orientation' = [orientation EXCEPT ![i] = WindowOrientation]
                   /\ burstInvokes' = [burstInvokes EXCEPT ![i] = Counted(@)]
              ELSE UNCHANGED <<orientation, burstInvokes>>
    /\ UNCHANGED <<hasWindow, innerWidth, innerHeight, listeners, phase, options,
                   thrown, result, sinceResize, burstCalls>>
    /\ Mismatch(0)

\* A cleanup that removes the listener and leaves the timer running.
CleanupNoCancel(i) ==
    /\ phase[i] = "active"
    /\ listeners' = listeners \ {i}
    /\ phase' = [phase EXCEPT ![i] = "unmounted"]
    /\ fired' = NoneFired
    /\ UNCHANGED <<hasWindow, innerWidth, innerHeight, options, thrown,
                   orientation, result, sinceResize, burstCalls, burstInvokes,
                   handleResize>>
    /\ Mismatch(0)

\* A cleanup that removes every resize listener and cancels every debounced
\* function, as if the hooks shared one handleResize.
CleanupShared(i) ==
    /\ phase[i] = "active"
    /\ listeners' = {}
    /\ handleResize' = [j \in Hooks |-> Cancel(handleResize[j])]
    /\ phase' = [phase EXCEPT ![i] = "unmounted"]
    /\ fired' = NoneFired
    /\ UNCHANGED <<hasWindow, innerWidth, innerHeight, options, thrown,
                   orientation, result, sinceResize, burstCalls, burstInvokes>>
    /\ Mismatch(0)

\* A cleanup that cancels the debounced function and leaves the listener.
CleanupNoRemove(i) ==
    /\ phase[i] = "active"
    /\ handleResize' = [handleResize EXCEPT ![i] = Cancel(@)]
    /\ phase' = [phase EXCEPT ![i] = "unmounted"]
    /\ fired' = NoneFired
    /\ UNCHANGED <<hasWindow, innerWidth, innerHeight, options, thrown,
                   orientation, result, sinceResize, burstCalls, burstInvokes,
                   listeners>>
    /\ Mismatch(0)

\* Lines 57-58, the two statements of the cleanup of hook i, on the state as
\* it is: removeEventListener and cancel().
CleanupOutcome(i) ==
    [listeners |-> listeners \ {i},
     handleResize |-> [handleResize EXCEPT ![i] = Cancel(@)]]

\* Lines 56-59, the cleanup the effect returned, run when the component
\* unmounts: the listener is removed and the debounced function cancelled.
Cleanup(i) ==
    /\ phase[i] = "active"
    /\ listeners' = CleanupOutcome(i).listeners
    /\ handleResize' = CleanupOutcome(i).handleResize
    /\ phase' = [phase EXCEPT ![i] = "unmounted"]
    /\ fired' = NoneFired
    /\ UNCHANGED <<hasWindow, innerWidth, innerHeight, options, thrown,
                   orientation, result, sinceResize, burstCalls, burstInvokes>>
    /\ Mismatch(0)

\* ---------------------------------------------------------- specification
\* The hooks the specification mounts.
Mounted == {"h1"}

Next ==
    \/ \E i \in Mounted, opts \in OptionsValues : Activate(i, opts)
    \/ \E i \in Mounted : Rerender(i)
    \/ \E i \in Mounted : Effect(i)
    \/ \E w \in Sizes, h \in Sizes : Resize(w, h)
    \/ Tick
    \/ \E i \in Mounted : TimerFires(i)
    \/ \E i \in Mounted : Cleanup(i)

Spec == Init /\ [][Next]_vars

\* Two components mounted in the same window, each calling the hook without
\* options; the window keeps its height, the smallest size, and is resized in
\* width.
SmallestSize == CHOOSE s \in Sizes : \A t \in Sizes : s <= t

InitTwo == Init /\ hasWindow /\ innerHeight = SmallestSize

NextTwo ==
    \/ \E i \in Hooks : Activate(i, Options(JsUndefined, JsUndefined))
    \/ \E i \in Hooks : Effect(i)
    \/ \E w \in Sizes : Resize(w, innerHeight)
    \/ Tick
    \/ \E i \in Hooks : TimerFires(i)
    \/ \E i \in Hooks : Cleanup(i)

SpecTwo == InitTwo /\ [][NextTwo]_vars

\* ------------------------------------------------------------------ claims
\* The orientation the window's size calls for: portrait when the width is at
\* most the height.
Expected == IF innerWidth <= innerHeight THEN "portrait" ELSE "landscape"

\* The defaultOrientation a valid options argument stands for.
DefaultOf(opts) ==
    IF opts.defaultOrientation = JsUndefined
    THEN "portrait"
    ELSE opts.defaultOrientation.str

\* C1: in every object the hook returns, portrait is true exactly when
\* orientation is "portrait", landscape exactly when it is "landscape", and
\* exactly one of the two flags is true.
C1_FlagsFollowOrientation ==
    \A i \in Hooks :
        result[i] /= NoResults =>
            /\ result[i].portrait = (result[i].orientation = "portrait")
            /\ result[i].landscape = (result[i].orientation = "landscape")
            /\ result[i].portrait /= result[i].landscape

\* A hook seeded with "portrait" returns landscape after func has run.
C1_Witness ==
    \E i \in Hooks :
        /\ DefaultOf(options[i]) = "portrait"
        /\ result[i].orientation = "landscape"
        /\ result[i].landscape
        /\ ~result[i].portrait

\* C2: once more than Wait has passed since the last resize notification, the
\* orientation of a listening hook is "portrait" if the window's width is at
\* most its height (equal included) and "landscape" otherwise.
C2_SettledOrientation ==
    \A i \in listeners :
        sinceResize > Wait => orientation[i] = Expected

\* A burst of notifications ended in a square window, the trailing invocation
\* has run and the hook has settled on portrait.
C2_Witness ==
    \E i \in listeners :
        /\ sinceResize > Wait
        /\ burstCalls[i] >= 2
        /\ burstInvokes[i] = 2
        /\ innerWidth = innerHeight
        /\ orientation[i] = "portrait"

\* C3: once the cleanup has run, func is not invoked for that activation: no
\* step invokes it, by a resize notification or by the timer that was pending,
\* the listener is gone, no timer is left, and the orientation value stays.
C3_NothingAfterCleanup ==
    [][\A i \in Hooks :
           phase'[i] = "unmounted" =>
               /\ fired'[i] = "none"
               /\ orientation'[i] = orientation[i]
               /\ i \notin listeners'
               /\ handleResize'[i].timerId = Undefined]_vars

\* A hook was deactivated, the window has another orientation than the hook's
\* value, and more than Wait has passed since the last notification.
C3_Witness ==
    \E i \in Hooks :
        /\ phase[i] = "unmounted"
        /\ orientation[i] /= NoOrientation
        /\ orientation[i] /= Expected
        /\ sinceResize > Wait

\* C4: a burst of resize notifications, each less than Wait after the one
\* before, causes at most two invocations of func, however many notifications
\* it has.
C4_BurstInvokesAtMostTwo ==
    \A i \in Hooks : burstInvokes[i] <= 2

\* A burst of MaxBurst notifications or more has caused two invocations.
C4_Witness ==
    \E i \in Hooks :
        /\ burstCalls[i] = MaxBurst
        /\ burstInvokes[i] = 2

\* C5: a call whose options value is a string, a number, a boolean, a
\* function or null throws a TypeError with the message "The options argument
\* must be formatted as an object."; a call without options throws nothing.
C5_NonObjectOptionsRejected ==
    \A i \in Hooks :
        /\ options[i].v.kind \in {"string", "number", "boolean", "function", "null"}
               => thrown[i] = Error("TypeError", OptionsTypeMessage)
        /\ options[i].v.kind = "undefined" => thrown[i] = NoError

\* The offending value as the message is to show it: in double quotes when it
\* is a string, as it prints otherwise.
Echoed(v) ==
    IF v.kind = "string" THEN "\"" \o v.str \o "\""
    ELSE IF v.kind = "symbol" THEN "Symbol(" \o v.str \o ")"
    ELSE TemplateString(v)

\* C6: a call with an options object whose defaultOrientation is present and
\* is neither "portrait" nor "landscape" throws an error whose message is the
\* value (quoted if and only if it is a string) followed by ' is not a valid
\* defaultOrientation. Use "portrait" or "landscape".'; without the property
\* the call throws nothing and the hook starts from "portrait".
C6_InvalidDefaultOrientationMessage ==
    \A i \in Hooks :
        options[i].v.kind = "object" =>
            LET d == options[i].defaultOrientation
            IN  /\ (d /= JsUndefined /\ d \notin ValidDefaults)
                       => thrown[i].message = Echoed(d) \o DefaultOrientationMessage
                /\ d = JsUndefined
                       => /\ thrown[i] = NoError
                          /\ phase[i] = "rendered" => orientation[i] = "portrait"

\* C7: a call that throws a configuration error on activation leaves no
\* listener registered, no timer started, no state value created and func not
\* invoked: listeners, debounced function and orientation are as before.
C7_FailedActivationChangesNothing ==
    [][\A i \in Hooks :
           (/\ phase[i] = "unmounted"
            /\ thrown'[i] /= NoError
            /\ (options'[i] /= options[i] \/ thrown'[i] /= thrown[i])) =>
               /\ listeners' = listeners
               /\ handleResize' = handleResize
               /\ orientation'[i] = orientation[i]
               /\ result'[i] = NoResults
               /\ fired'[i] = "none"
               /\ phase'[i] = "unmounted"]_vars

\* A call with defaultOrientation "sideways" has thrown and nothing exists.
C7_Witness ==
    \E i \in Hooks :
        /\ options[i] = Options(JsObject, JsString("sideways"))
        /\ thrown[i] /= NoError
        /\ phase[i] = "unmounted"
        /\ orientation[i] = NoOrientation
        /\ handleResize[i] = NewDebounced
        /\ listeners = {}

\* C8: without a window the effect does not throw and the orientation stays
\* the defaultOrientation.
C8_NoWindowKeepsDefault ==
    \A i \in Hooks :
        (~hasWindow /\ phase[i] /= "unmounted") =>
            /\ phase[i] /= "crashed"
            /\ orientation[i] = DefaultOf(options[i])

\* C9: after validation the orientation is the defaultOrientation, and once
\* the effect has run with a window, and before any resize notification, it is
\* the orientation of the window.
C9_InitialOrientation ==
    \A i \in Hooks :
        /\ phase[i] = "rendered" => orientation[i] = DefaultOf(options[i])
        /\ (phase[i] = "active" /\ burstCalls[i] = 0) => orientation[i] = Expected

\* A hook seeded with "portrait" is landscape once its effect has run, with
\* no resize notification received.
C9_Witness ==
    \E i \in Hooks :
        /\ phase[i] = "active"
        /\ burstCalls[i] = 0
        /\ DefaultOf(options[i]) = "portrait"
        /\ orientation[i] = "landscape"

\* C10 as claimed: the orientation of a listening hook never disagrees with
\* the window for more than Wait.
C10_ReflectedWithinWait ==
    \A i \in listeners : mismatchAge[i] <= Wait

\* C10 as amended: while the orientation of a listening hook disagrees with
\* the window, a trailing invocation is pending and its timer is due at the
\* latest Wait after the last resize notification.
C10_ReflectedWithinWaitOfLastNotification ==
    \A i \in listeners :
        orientation[i] /= Expected =>
            /\ handleResize[i].lastArgs
            /\ handleResize[i].timerId /= Undefined
            /\ handleResize[i].lastCallAge = sinceResize
            /\ handleResize[i].timerId <= Wait - sinceResize

\* In a run of notifications less than Wait apart the orientation has
\* disagreed with the window for more than Wait.
C10_Witness ==
    \E i \in listeners :
        /\ orientation[i] /= Expected
        /\ mismatchAge[i] > Wait

\* The step is the first resize notification of a burst for listening hook i:
\* the first it receives since activation, or one that comes Wait or more
\* after the notification before it.
FirstOfBurst(i) ==
    /\ i \in listeners
    /\ \/ burstCalls[i] = 0 /\ burstCalls'[i] = 1
       \/ (sinceResize = Undefined \/ sinceResize >= Wait) /\ sinceResize' = 0

\* C11 as claimed: the first resize notification of every burst, the first
\* after activation included, invokes func on arrival.
C11_FirstOfBurstInvokes ==
    [][\A i \in Hooks : FirstOfBurst(i) => fired'[i] = "leading"]_vars

\* C11 as amended: the first resize notification of a burst invokes func on
\* arrival, from the window as resized, when no timer of the debounced
\* function is running; while one is running (within Wait of the call the
\* effect makes at line 53, or due and not yet run) the notification is left
\* to the timer.
C11_FirstOfBurstInvokesWhenIdle ==
    [][\A i \in Hooks :
           FirstOfBurst(i) =>
               IF handleResize[i].timerId = Undefined
               THEN /\ fired'[i] = "leading"
                    /\ orientation'[i] = Expected'
               ELSE /\ fired'[i] = "none"
                    /\ handleResize'[i].lastArgs
                    /\ handleResize'[i].timerId = handleResize[i].timerId]_vars

\* The first notification of a burst has just invoked func on arrival and
\* turned a portrait hook to landscape.
C11_Witness ==
    \E i \in listeners :
        /\ fired[i] = "leading"
        /\ burstCalls[i] = 1
        /\ burstInvokes[i] = 1
        /\ sinceResize = 0
        /\ DefaultOf(options[i]) = "portrait"
        /\ orientation[i] = "landscape"

\* The step is a call of hook i's debounced function while it is idle (no
\* timer): the age of its last call, unset or Wait and more, becomes 0.
CallWhileIdle(i) ==
    /\ handleResize[i].timerId = Undefined
    /\ handleResize'[i].lastCallAge = 0

\* The step is the expiry of hook i's timer: a due timer is cleared or set
\* again (a cleanup clears it too, and ends the activation).
TimerExpiry(i) ==
    /\ handleResize[i].timerId = 0
    /\ handleResize'[i].timerId /= 0
    /\ phase'[i] = phase[i]

\* C12 as claimed: a call while idle invokes func and starts a timer; func is
\* invoked on a call only while idle; when the timer expires func is invoked
\* if and only if a call arrived while it ran, and no timer is left.
C12_TwoStateMachine ==
    [][\A i \in Hooks :
           /\ CallWhileIdle(i) =>
                  /\ fired'[i] = "leading"
                  /\ handleResize'[i].timerId = Wait
           /\ fired'[i] = "leading" => handleResize[i].timerId = Undefined
           /\ TimerExpiry(i) =>
                  /\ fired'[i] = "trailing" <=> handleResize[i].lastArgs
                  /\ handleResize'[i].timerId = Undefined]_vars

\* C12 as amended: as claimed for calls; a timer that expires Wait or more
\* after the last call invokes func if and only if a call arrived while it
\* ran and leaves no timer, and one that expires sooner after the last call
\* invokes nothing and is started again for the rest of the wait.
C12_TwoStateMachineWithRestart ==
    [][\A i \in Hooks :
           /\ CallWhileIdle(i) =>
                  /\ fired'[i] = "leading"
                  /\ handleResize'[i].timerId = Wait
           /\ fired'[i] = "leading" => handleResize[i].timerId = Undefined
           /\ TimerExpiry(i) =>
                  IF handleResize[i].lastCallAge >= Wait
                  THEN /\ fired'[i] = "trailing" <=> handleResize[i].lastArgs
                       /\ handleResize'[i].timerId = Undefined
                       /\ ~handleResize'[i].lastArgs
                  ELSE /\ fired'[i] = "none"
                       /\ handleResize'[i].timerId = Wait - handleResize[i].lastCallAge
                       /\ handleResize'[i].lastArgs = handleResize[i].lastArgs]_vars

\* A timer is running, with time left, for a call that is pending although
\* the orientation has been stale for Wait or more: the timer was started
\* again.
C12_Witness ==
    \E i \in listeners :
        /\ handleResize[i].lastArgs
        /\ handleResize[i].timerId > 0
        /\ mismatchAge[i] >= Wait

\* The step belongs to hook i alone: its render, its effect, its cleanup or
\* the expiry of its timer.
OwnStep(i) == phase'[i] /= phase[i] \/ TimerExpiry(i)

\* C13: a step of one hook (its activation, its cleanup, its timer) leaves
\* the listener, the debounced function with its timer and the orientation of
\* every other hook as they were, and every listening hook, whatever became
\* of the others, has the window's orientation once more than Wait has passed
\* since the last resize notification.
C13_ObserversIndependent ==
    [][/\ \A i \in Hooks, j \in Hooks :
              (i /= j /\ OwnStep(i) /\ ~OwnStep(j)) =>
                  /\ (j \in listeners') = (j \in listeners)
                  /\ handleResize'[j] = handleResize[j]
                  /\ orientation'[j] = orientation[j]
                  /\ phase'[j] = phase[j]
       /\ \A j \in listeners' :
              sinceResize' > Wait => orientation'[j] = Expected']_vars

\* One hook was deactivated with a stale value; the other went on listening
\* and has settled on the window's orientation by a trailing invocation.
C13_Witness ==
    \E i \in Hooks, j \in Hooks :
        /\ i /= j
        /\ phase[i] = "unmounted"
        /\ orientation[i] /= NoOrientation
        /\ orientation[i] /= Expected
        /\ j \in listeners
        /\ burstInvokes[j] = 2
        /\ sinceResize > Wait
        /\ orientation[j] = Expected

\* The step is a render of hook i after its first: the object returned
\* changes within an activation.
LaterRender(i) ==
    /\ phase[i] \in {"rendered", "active"}
    /\ phase'[i] = phase[i]
    /\ result'[i] /= result[i]

\* C14: within and after an activation the orientation value changes only in
\* a step that invokes func; a later render, a resize notification left to
\* the timer and the cleanup leave it as it was; and a later render runs no
\* effect: debounced function, timer and listeners stay as they were.
C14_OrientationChangesOnlyByFunc ==
    [][\A i \in Hooks :
           /\ (/\ orientation'[i] /= orientation[i]
               /\ ~(phase[i] = "unmounted" /\ phase'[i] = "rendered"))
                  => fired'[i] /= "none"
           /\ LaterRender(i) =>
                  /\ orientation'[i] = orientation[i]
                  /\ handleResize' = handleResize
                  /\ listeners' = listeners
                  /\ fired'[i] = "none"
                  /\ result'[i] = OrientationResults(orientation[i])]_vars

\* A later render has returned the orientation func set, another than the
\* seed, while a call is pending on a running timer.
C14_Witness ==
    \E i \in listeners :
        /\ result[i].orientation = orientation[i]
        /\ orientation[i] /= DefaultOf(options[i])
        /\ handleResize[i].lastArgs
        /\ handleResize[i].timerId /= Undefined

\* The cleanup of hook i has run and the component has not rendered since.
CleanedUp(i) == phase[i] = "unmounted" /\ orientation[i] /= NoOrientation

\* C15: run again after it has run (with a trailing call pending or not at
\* its first run, and whatever came since), the cleanup leaves the state it
\* finds: no listener of the hook, no timer, and nothing else changed.
C15_CleanupIdempotent ==
    \A i \in Hooks :
        CleanedUp(i) =>
            /\ CleanupOutcome(i).listeners = listeners
            /\ CleanupOutcome(i).handleResize = handleResize
            /\ i \notin CleanupOutcome(i).listeners
            /\ CleanupOutcome(i).handleResize[i].timerId = Undefined
            /\ ~CleanupOutcome(i).handleResize[i].lastArgs

\* The cleanup of a hook has run and its value is stale (a pending call was
\* cancelled, or the window was resized since): nothing is left to remove or
\* to cancel.
C15_Witness ==
    \E i \in Hooks :
        /\ CleanedUp(i)
        /\ orientation[i] /= Expected
        /\ i \notin listeners
        /\ handleResize[i] = NewDebounced

\* C16: a hook has its resize listener exactly while it is active, and a hook
\* that is not active has no timer outstanding.
C16_NoListenerOrTimerLeak ==
    \A i \in Hooks :
        /\ (i \in listeners) = (phase[i] = "active")
        /\ phase[i] /= "active" => handleResize[i].timerId = Undefined

\* C17: with a window, every invocation of func, on a call or by the timer,
\* leaves the orientation the window's size calls for as it is when func
\* runs: the size of the last resize, not of an earlier one.
C17_InvocationReadsCurrentSize ==
    [][\A i \in Hooks :
           (hasWindow /\ fired'[i] /= "none") => orientation'[i] = Expected']_vars

\* The timer has just invoked func after a burst of MaxBurst notifications or
\* more, and the hook, seeded with portrait, is landscape as the window is.
C17_Witness ==
    \E i \in listeners :
        /\ fired[i] = "trailing"
        /\ burstCalls[i] = MaxBurst
        /\ DefaultOf(options[i]) = "portrait"
        /\ orientation[i] = "landscape"
        /\ Expected = "landscape"

====
